---- MODULE Spec2Model ----
(***************************************************************************)
(* Model of src/src/aux_gate.rs: the fused auxiliary gate (AuxChip), its   *)
(* region cursor (RegionCtx), the random_linear_combination gadget, and    *)
(* the configuration-time pipeline of its tests: the gate polynomial is    *)
(* translated to flat variable indices, expanded, fold-transformed and its *)
(* coefficients by challenge power are taken.                              *)
(* Field arithmetic is arithmetic modulo the prime P.                      *)
(* Spec runs one gadget invocation, SpecSeq invocations one after the      *)
(* other on one cursor, SpecGate the configuration-time pipeline.          *)
(***************************************************************************)
EXTENDS Integers, Sequences, FiniteSets, Bags, TLC

\* ---------------------------------------------------------------- bounds
\* longest `terms` vector handed to the gadget
MaxLen == 3
\* number of gadget invocations run one after the other on one cursor
MaxInvocations == 2
\* largest cursor value a RegionCtx is constructed with
MaxStart == 1
\* largest state width T a chip is configured with
MaxT == 3
\* most instance columns the constraint system holds before configure
MaxInst == 1
\* most columns the iterators hold beyond those configure takes
MaxSpare == 1
\* most variables of an assignment that differ from the base assignment
MaxEdits == 1

\* ------------------------------------------------------- field F: PrimeField
P == 43
Field == 0..(P - 1)
FAdd(a, b) == (a + b) % P
FMul(a, b) == (a * b) % P
FNeg(a) == (P - a) % P
FOne == 1

RECURSIVE FPow(_, _)
FPow(x, n) == IF n = 0 THEN 1 ELSE FMul(x, FPow(x, n - 1))

\* state width of the chip the tests build
TestT == 2

VARIABLES
    advice,     \* assigned advice cells: <<column, row>> -> value
    fixed,      \* assigned fixed cells: <<column, row>> -> value
    copies,     \* recorded equality constraints, in order: <<cell, cell>>
    offset,     \* RegionCtx.offset, the region cursor
    pc,         \* "idle" | "loop" | "done" | "err" | "panic"
    terms, r,   \* arguments of the running invocation
    i,          \* loop variable of `for i in 1..d`
    out,        \* the local `out`: None or an assigned cell
    ret,        \* what the invocation returned: None, an assigned cell, or Err
    entry,      \* cursor value when the running invocation was entered
    log,        \* backend calls of the running invocation, in order
    prevRows,   \* rows written by earlier invocations on this cursor
    invocations,\* number of invocations started
    T,          \* the const generic T of the chip being configured
    cs,         \* the ConstraintSystem: column counts, equality columns, gates
    adv_cols,   \* the advice column iterator handed to configure
    fix_cols,   \* the fixed column iterator handed to configure
    cfg,        \* the AuxConfig configure returned, or None
    epc,        \* position of the configuration-time pipeline
    gexpr,      \* gates[0][0], translated to flat variable indices
    multipoly,  \* expr.expand()
    res,        \* multipoly.fold_transform(meta)
    coeffs,     \* r_index, e1 and e2 of the cross-term test
    z           \* an assignment of field values to the flat variables

gvars == <<advice, fixed, copies, offset, pc, terms, r, i, out, ret, entry, log,
           prevRows, invocations>>
evars == <<T, cs, adv_cols, fix_cols, cfg, epc, gexpr, multipoly, res, coeffs, z>>
vars == <<gvars, evars>>

None == [tag |-> "none"]
Err == [tag |-> "err"]
Some(c, v) == [tag |-> "cell", cell |-> c, value |-> v]

\* n columns allocated one after the other, the first with index `first`
Columns(first, n) == [k \in 1..n |-> first + k - 1]

\* faulty variant of AuxConfig: q_5 taken from the iterator before q_1
AuxConfigQuinticFirst(adv, fix, w) ==
    [ state |-> [k \in 0..(w - 1) |-> adv[k + 1]],
      input |-> adv[w + 1],
      out   |-> adv[w + 2],
      q_1   |-> [k \in 0..(w - 1) |-> fix[w + k + 1]],
      q_5   |-> [k \in 0..(w - 1) |-> fix[k + 1]],
      q_m   |-> fix[2 * w + 1],
      q_i   |-> fix[2 * w + 2],
      q_o   |-> fix[2 * w + 3],
      rc    |-> fix[2 * w + 4] ]

\* the AuxConfig of state width w: the columns configure takes, in order, from
\* the iterators adv and fix
AuxConfig(adv, fix, w) ==
    [ state |-> [k \in 0..(w - 1) |-> adv[k + 1]],
      input |-> adv[w + 1],
      out   |-> adv[w + 2],
      q_1   |-> [k \in 0..(w - 1) |-> fix[k + 1]],
      q_5   |-> [k \in 0..(w - 1) |-> fix[w + k + 1]],
      q_m   |-> fix[2 * w + 1],
      q_i   |-> fix[2 * w + 2],
      q_o   |-> fix[2 * w + 3],
      rc    |-> fix[2 * w + 4] ]

\* the configuration of the chip the gadget runs on
config == AuxConfig(Columns(0, TestT + 2), Columns(0, 2 * TestT + 4), TestT)

\* ------------------------------------------------ the gate (AuxChip::configure)
QueryAdvice(c) == [op |-> "advice", col |-> c]
QueryFixed(c) == [op |-> "fixed", col |-> c]
EMul(a, b) == [op |-> "mul", a |-> a, b |-> b]
EAdd(a, b) == [op |-> "add", a |-> a, b |-> b]

\* faulty variant of pow_5: the last factor v dropped
pow_5Quartic(v) == EMul(EMul(v, v), EMul(v, v))

\* the closure pow_5: v2 = v*v; v2*v2*v
pow_5(v) == EMul(EMul(EMul(v, v), EMul(v, v)), v)

\* q_m*s[0]*s[1] + q_i*input + rc + q_o*out
init_term(c) ==
    EAdd(EAdd(EAdd(EMul(EMul(QueryFixed(c.q_m), QueryAdvice(c.state[0])),
                        QueryAdvice(c.state[1])),
                   EMul(QueryFixed(c.q_i), QueryAdvice(c.input))),
              QueryFixed(c.rc)),
         EMul(QueryFixed(c.q_o), QueryAdvice(c.out)))

\* q1*s + q5*pow_5(s) for state column k
GateItem(c, k) ==
    EAdd(EMul(QueryFixed(c.q_1[k]), QueryAdvice(c.state[k])),
         EMul(QueryFixed(c.q_5[k]), pow_5(QueryAdvice(c.state[k]))))

\* the fold over the first n state columns, seeded with init_term
RECURSIVE GateFold(_, _)
GateFold(c, n) ==
    IF n = 0 THEN init_term(c)
    ELSE EAdd(GateFold(c, n - 1), GateItem(c, n - 1))

\* the one polynomial of the gate create_gate registers
GatePoly(c, w) == GateFold(c, w)

\* value of a backend expression on one row: a(c), f(c) are the row's advice
\* and fixed values by column
RECURSIVE Eval(_, _, _)
Eval(e, a, f) ==
    CASE e.op = "advice" -> a[e.col]
      [] e.op = "fixed"  -> f[e.col]
      [] e.op = "mul"    -> FMul(Eval(e.a, a, f), Eval(e.b, a, f))
      [] e.op = "add"    -> FAdd(Eval(e.a, a, f), Eval(e.b, a, f))

\* ------------------------------------------------------------- RegionCtx
Region == [advice |-> advice, fixed |-> fixed, copies |-> copies]

\* value a cell holds; an unassigned cell holds zero
CellValue(cells, c) == IF c \in DOMAIN cells THEN cells[c] ELSE 0

\* RegionCtx::assign_advice: the backend stores `value` at (column, self.offset);
\* a cell assigned twice keeps the later value
assign_advice(reg, column, row, value) ==
    [reg EXCEPT !.advice = (<<column, row>> :> value) @@ reg.advice]

\* RegionCtx::assign_fixed: the backend stores `value` at (column, self.offset)
assign_fixed(reg, column, row, value) ==
    [reg EXCEPT !.fixed = (<<column, row>> :> value) @@ reg.fixed]

\* RegionCtx::constrain_equal: the backend records the pair of cells
constrain_equal(reg, cell_0, cell_1) ==
    [reg EXCEPT !.copies = Append(reg.copies, <<cell_0, cell_1>>)]

\* one backend call, as data
Op(kind, column, row, value, other) ==
    [kind |-> kind, col |-> column, row |-> row, val |-> value, other |-> other]

\* a call as the log keeps it: whether it succeeded, and the iteration it is of
Logged(op, ok, step) ==
    [kind |-> op.kind, col |-> op.col, row |-> op.row, val |-> op.val,
     other |-> op.other, ok |-> ok, step |-> step]

ApplyOp(reg, op) ==
    CASE op.kind = "advice" -> assign_advice(reg, op.col, op.row, op.val)
      [] op.kind = "fixed"  -> assign_fixed(reg, op.col, op.row, op.val)
      [] op.kind = "equal"  -> constrain_equal(reg, <<op.col, op.row>>, op.other)

RECURSIVE ApplyOps(_, _, _)
ApplyOps(reg, ops, n) ==
    IF n = 0 THEN reg ELSE ApplyOp(ApplyOps(reg, ops, n - 1), ops[n])

\* --------------------------------------- AuxChip::random_linear_combination
d == Len(terms)

\* terms is indexed from 0 in the source
Term(k) == terms[k + 1]

lhs_val == Term(d - 1 - i)
rhs_val == IF i = 1 THEN Term(d - i) ELSE out.value

\* faulty variant of NewAcc: the term and the accumulator swapped
NewAccSwapped(lhs, rv, rhs) == FAdd(rhs, FMul(rv, lhs))

\* lhs_val + r_val * rhs_val
NewAcc(lhs, rv, rhs) == FAdd(lhs, FMul(rv, rhs))

\* the column the new accumulator is assigned to
OutColumn(c) == c.state[1]

NoCell == <<0, 0>>

\* the backend calls of one loop iteration, in program order
StepOps ==
    <<Op("advice", config.input, offset, lhs_val, NoCell),
      Op("advice", config.state[1], offset, rhs_val, NoCell)>>
    \o (IF out # None
        THEN <<Op("equal", config.state[1], offset, 0, out.cell)>>
        ELSE <<>>)
    \o <<Op("advice", config.state[0], offset, r, NoCell),
         Op("advice", OutColumn(config), offset, NewAcc(lhs_val, r, rhs_val), NoCell),
         Op("fixed", config.q_1[0], offset, FOne, NoCell),
         Op("fixed", config.q_1[1], offset, FOne, NoCell),
         Op("fixed", config.q_i, offset, FOne, NoCell),
         Op("fixed", config.q_m, offset, FOne, NoCell),
         Op("fixed", config.q_o, offset, FNeg(FOne), NoCell)>>

\* faulty variant of CallsMade: the iteration goes on after a failed call
CallsMadeIgnoringErr(n, fail) == n

\* the `?` after every backend call: with the fail-th call failing (0: none
\* fails), the number of calls the iteration makes
CallsMade(n, fail) == IF fail = 0 THEN n ELSE fail

\* faulty variant of next: the cursor is not advanced
nextStuck(off) == off

\* RegionCtx::next
next(off) == off + 1

\* faulty variant of Unwrap: a missing cell is returned as if present
UnwrapUnchecked(o) == "done"

\* Option::unwrap of the local `out` at the return
Unwrap(o) == IF o = None THEN "panic" ELSE "done"

\* entry of the gadget: let d = terms.len(); let mut out = None
Enter(ts, rv) ==
    /\ terms' = ts
    /\ r' = rv
    /\ i' = 1
    /\ out' = None
    /\ ret' = None
    /\ entry' = offset
    /\ log' = <<>>
    /\ pc' = "loop"
    /\ invocations' = invocations + 1
    /\ UNCHANGED <<advice, fixed, copies, offset>>
    /\ UNCHANGED evars

\* the first invocation on a fresh region, its arguments drawn from TS and RS
Call(TS, RS) ==
    /\ pc = "idle"
    /\ \E ts \in TS, rv \in RS : Enter(ts, rv)
    /\ UNCHANGED prevRows

\* a further invocation on the same cursor, after one that returned a cell
CallAgain(TS, RS) ==
    /\ pc = "done"
    /\ invocations < MaxInvocations
    /\ \E ts \in TS, rv \in RS : Enter(ts, rv)
    /\ prevRows' = prevRows \cup {log[k].row : k \in 1..Len(log)}

\* one iteration of `for i in 1..d`; the fail-th backend call returns Err
Step(fail) ==
    /\ pc = "loop"
    /\ i < d
    /\ LET ops == StepOps
           n == Len(ops)
           made == CallsMade(n, fail)
           good == IF fail = 0 THEN n ELSE fail - 1
           reg == ApplyOps(Region, ops, good)
       IN /\ fail <= n
          /\ advice' = reg.advice
          /\ fixed' = reg.fixed
          /\ copies' = reg.copies
          /\ log' = log \o [k \in 1..made |->
                              Logged(ops[k], k <= good, i)]
          /\ IF fail = 0
             THEN /\ out' = Some(<<OutColumn(config), offset>>,
                                 NewAcc(lhs_val, r, rhs_val))
                  /\ offset' = next(offset)
                  /\ i' = i + 1
                  /\ pc' = "loop"
                  /\ ret' = ret
             ELSE /\ out' = None
                  /\ ret' = Err
                  /\ pc' = "err"
                  /\ UNCHANGED <<offset, i>>
    /\ UNCHANGED <<terms, r, entry, prevRows, invocations>>
    /\ UNCHANGED evars

\* Ok(out.unwrap()) after the loop
Return ==
    /\ pc = "loop"
    /\ i >= d
    /\ pc' = Unwrap(out)
    /\ ret' = IF Unwrap(out) = "done" THEN out ELSE None
    /\ UNCHANGED <<advice, fixed, copies, offset, terms, r, i, out, entry, log,
                   prevRows, invocations>>
    /\ UNCHANGED evars

Seqs(S, n) == UNION {[1..k -> S] : k \in 0..n}

\* ConstraintSystem::default() with ni instance columns, nothing configured
InitCs(w, ni) ==
    /\ T = w
    /\ cs = [num_fixed |-> 0, num_instance |-> ni, num_advice |-> 0,
             equality |-> {}, gates |-> <<>>]
    /\ adv_cols = <<>>
    /\ fix_cols = <<>>
    /\ cfg = None
    /\ epc = "new"
    /\ gexpr = None
    /\ multipoly = {}
    /\ res = {}
    /\ coeffs = None
    /\ z = <<>>

\* RegionCtx::new(region, start) on an empty region
InitRegion(start) ==
    /\ advice = <<>>
    /\ fixed = <<>>
    /\ copies = <<>>
    /\ offset = start
    /\ pc = "idle"
    /\ terms = <<>>
    /\ r = 0
    /\ i = 1
    /\ out = None
    /\ ret = None
    /\ entry = 0
    /\ log = <<>>
    /\ prevRows = {}
    /\ invocations = 0

Init ==
    /\ \E start \in 0..MaxStart : InitRegion(start)
    /\ InitCs(TestT, 0)

\* the field values the gadget's arguments are drawn from
TermVals == {0, 3, 5, 7}
Scalars == {0, 1, 2, P - 1}

\* the call of an iteration that fails (0: none)
Fails == 0..10

Next ==
    \/ Call(Seqs(TermVals, MaxLen), Scalars)
    \/ \E fail \in Fails : Step(fail)
    \/ Return

Spec == Init /\ [][Next]_vars

\* terms and scalars of the sequential-composition runs
SeqVals == {1, 3}
SeqScalars == {2}
SeqFails == {0, 5}

NextSeq ==
    \/ Call(Seqs(SeqVals, MaxLen), SeqScalars)
    \/ CallAgain(Seqs(SeqVals, MaxLen), SeqScalars)
    \/ \E fail \in SeqFails : Step(fail)
    \/ Return

SpecSeq == Init /\ [][NextSeq]_vars

\* ------------------------------------- configuration (tests::aux_gate_expressions)
\* cs.advice_column() T+2+spare times and cs.fixed_column() 2T+4+spare times:
\* the iterators configure is handed
AllocColumns(spare) ==
    /\ epc = "new"
    /\ adv_cols' = Columns(cs.num_advice, T + 2 + spare)
    /\ fix_cols' = Columns(cs.num_fixed, 2 * T + 4 + spare)
    /\ cs' = [cs EXCEPT !.num_advice = @ + T + 2 + spare,
                        !.num_fixed = @ + 2 * T + 4 + spare]
    /\ epc' = "columns"
    /\ UNCHANGED <<T, cfg, gexpr, multipoly, res, coeffs, z>>
    /\ UNCHANGED gvars

\* the columns configure enables equality on: every state column, and out
EqualityColumns(c, w) == {c.state[k] : k \in 0..(w - 1)} \cup {c.out}

\* AuxChip::configure: assert!(T>=2), take the columns, enable equality,
\* register the gate
Configure ==
    /\ epc = "columns"
    /\ IF T >= 2
       THEN LET c == AuxConfig(adv_cols, fix_cols, T)
            IN /\ cfg' = c
               /\ adv_cols' = SubSeq(adv_cols, T + 3, Len(adv_cols))
               /\ fix_cols' = SubSeq(fix_cols, 2 * T + 5, Len(fix_cols))
               /\ cs' = [cs EXCEPT
                           !.equality = @ \cup EqualityColumns(c, T),
                           !.gates = Append(@, <<GatePoly(c, T)>>)]
               /\ epc' = "configured"
       ELSE /\ epc' = "panic"
            /\ UNCHANGED <<cfg, adv_cols, fix_cols, cs>>
    /\ UNCHANGED <<T, gexpr, multipoly, res, coeffs, z>>
    /\ UNCHANGED gvars

\* ------------------------------------------ crate::polynomial (symbolic engine)
Var(idx) == [op |-> "var", idx |-> idx]
Sum(a, b) == [op |-> "sum", a |-> a, b |-> b]
Product(a, b) == [op |-> "prod", a |-> a, b |-> b]

\* Expression::from_halo2_expr: fixed, then instance, then advice
RECURSIVE from_halo2_expr(_, _, _)
from_halo2_expr(e, nf, ni) ==
    CASE e.op = "fixed"  -> Var(e.col)
      [] e.op = "advice" -> Var(nf + ni + e.col)
      [] e.op = "mul"    -> Product(from_halo2_expr(e.a, nf, ni),
                                    from_halo2_expr(e.b, nf, ni))
      [] e.op = "add"    -> Sum(from_halo2_expr(e.a, nf, ni),
                                from_halo2_expr(e.b, nf, ni))

\* value of an expression under the assignment zz of its variables
RECURSIVE EvalExpr(_, _)
EvalExpr(e, zz) ==
    CASE e.op = "var"  -> zz[e.idx]
      [] e.op = "prod" -> FMul(EvalExpr(e.a, zz), EvalExpr(e.b, zz))
      [] e.op = "sum"  -> FAdd(EvalExpr(e.a, zz), EvalExpr(e.b, zz))

\* A monomial is a bag of variable indices (index -> exponent); a polynomial
\* in sum-of-monomials form is a set of terms [m, c], one per monomial, with
\* no zero coefficient.
Mono(idx) == SetToBag({idx})
One == EmptyBag
Term1(m) == [m |-> m, c |-> 1]

\* sum of the coefficients c of a set of tagged values <<tag, c>>
RECURSIVE SumTagged(_)
SumTagged(S) ==
    IF S = {} THEN 0
    ELSE LET t == CHOOSE x \in S : TRUE
         IN FAdd(t[2], SumTagged(S \ {t}))

Monos(p) == {t.m : t \in p}
CoeffIn(p, m) == SumTagged({<<t, t.c>> : t \in {x \in p : x.m = m}})
Prune(p) == {t \in p : t.c # 0}

PAdd(p, q) ==
    Prune({[m |-> m, c |-> FAdd(CoeffIn(p, m), CoeffIn(q, m))] :
             m \in Monos(p) \cup Monos(q)})

PMul(p, q) ==
    Prune({[m |-> m,
            c |-> SumTagged({<<pr, FMul(pr[1].c, pr[2].c)>> :
                     pr \in {x \in p \X q : x[1].m (+) x[2].m = m}})] :
             m \in {a.m (+) b.m : a \in p, b \in q}})

RECURSIVE PPow(_, _)
PPow(p, n) == IF n = 0 THEN {Term1(One)} ELSE PMul(p, PPow(p, n - 1))

\* Expression::expand: distribute products over sums, merge equal monomials
RECURSIVE expand(_)
expand(e) ==
    CASE e.op = "var"  -> {Term1(Mono(e.idx))}
      [] e.op = "prod" -> PMul(expand(e.a), expand(e.b))
      [] e.op = "sum"  -> PAdd(expand(e.a), expand(e.b))

\* value of a monomial / an expanded polynomial under the assignment zz
RECURSIVE EvalMono(_, _)
EvalMono(m, zz) ==
    IF m = EmptyBag THEN 1
    ELSE LET v == CHOOSE x \in DOMAIN m : TRUE
         IN FMul(FPow(zz[v], m[v]),
                 EvalMono([x \in (DOMAIN m) \ {v} |-> m[x]], zz))

EvalPoly(p, zz) == SumTagged({<<t, FMul(t.c, EvalMono(t.m, zz))>> : t \in p})

\* meta = (num_fixed, num_instance, num_advice)
Meta == <<cs.num_fixed, cs.num_instance, cs.num_advice>>

\* the variables of one instance copy: the num_instance + num_advice
\* non-fixed variables and one extra slot, the homogenising variable u
CopyWidth(meta) == meta[2] + meta[3] + 1
Copy1(v, meta) == v
Copy2(v, meta) == v + CopyWidth(meta)
U1(meta) == meta[1] + meta[2] + meta[3]
U2(meta) == Copy2(U1(meta), meta)
\* the challenge variable fold_transform introduces
Challenge(meta) == meta[1] + 2 * CopyWidth(meta)

\* faulty variant of r_index: no extra slot counted per copy
r_indexNoSlot(meta) == meta[1] + 2 * (meta[2] + meta[3])

\* r_index of tests::test_aux_gate_cross_term
r_index(meta) == meta[1] + 2 * (meta[2] + meta[3] + 1)

\* degree of a monomial in the non-fixed variables
WitnessDegree(m, meta) ==
    LET W == {v \in DOMAIN m : v >= meta[1]}
        RECURSIVE Deg(_)
        Deg(S) == IF S = {} THEN 0
                  ELSE LET v == CHOOSE x \in S : TRUE IN m[v] + Deg(S \ {v})
    IN Deg(W)

RECURSIVE MaxOf(_)
MaxOf(S) ==
    IF S = {} THEN 0
    ELSE LET x == CHOOSE y \in S : TRUE
             rest == MaxOf(S \ {x})
         IN IF x > rest THEN x ELSE rest

PolyDegree(p, meta) == MaxOf({WitnessDegree(t.m, meta) : t \in p})

\* v1 + challenge * v2 for a non-fixed variable; a fixed variable is shared
Substitute(v, meta) ==
    IF v < meta[1] THEN {Term1(Mono(v))}
    ELSE {Term1(Mono(Copy1(v, meta))),
          Term1(Mono(Challenge(meta)) (+) Mono(Copy2(v, meta)))}

\* the substitution applied to every variable of one monomial
RECURSIVE SubstituteMono(_, _)
SubstituteMono(m, meta) ==
    IF m = EmptyBag THEN {Term1(One)}
    ELSE LET v == CHOOSE x \in DOMAIN m : TRUE
         IN PMul(PPow(Substitute(v, meta), m[v]),
                 SubstituteMono([x \in (DOMAIN m) \ {v} |-> m[x]], meta))

\* one term, homogenised to degree deg by the extra variable, substituted
FoldTerm(t, deg, meta) ==
    PMul({[m |-> One, c |-> t.c]},
         PMul(SubstituteMono(t.m, meta),
              PPow(Substitute(U1(meta), meta), deg - WitnessDegree(t.m, meta))))

RECURSIVE FoldTerms(_, _, _)
FoldTerms(S, deg, meta) ==
    IF S = {} THEN {}
    ELSE LET t == CHOOSE x \in S : TRUE
         IN PAdd(FoldTerm(t, deg, meta), FoldTerms(S \ {t}, deg, meta))

\* MultiPolynomial::fold_transform
fold_transform(p, meta) == FoldTerms(p, PolyDegree(p, meta), meta)

Exponent(m, v) == IF v \in DOMAIN m THEN m[v] ELSE 0
Without(m, v) == [x \in (DOMAIN m) \ {v} |-> m[x]]

\* MultiPolynomial::coeff_of: the terms whose exponent on v is k, v divided out
coeff_of(p, v, k) ==
    {[m |-> Without(t.m, v), c |-> t.c] : t \in {x \in p : Exponent(x.m, v) = k}}

\* gates[0][0] of aux_gate_expressions: Expression::from_halo2_expr
Translate ==
    /\ epc = "configured"
    /\ gexpr' = from_halo2_expr(cs.gates[1][1], cs.num_fixed, cs.num_instance)
    /\ epc' = "expr"
    /\ UNCHANGED <<T, cs, adv_cols, fix_cols, cfg, multipoly, res, coeffs, z>>
    /\ UNCHANGED gvars

\* let multipoly = expr.expand()
Expand ==
    /\ epc = "expr"
    /\ multipoly' = expand(gexpr)
    /\ epc' = "expanded"
    /\ UNCHANGED <<T, cs, adv_cols, fix_cols, cfg, gexpr, res, coeffs, z>>
    /\ UNCHANGED gvars

\* let res = multipoly.fold_transform(meta)
FoldTransform ==
    /\ epc = "expanded"
    /\ res' = fold_transform(multipoly, Meta)
    /\ epc' = "folded"
    /\ UNCHANGED <<T, cs, adv_cols, fix_cols, cfg, gexpr, multipoly, coeffs, z>>
    /\ UNCHANGED gvars

\* e1 = res.coeff_of((0, r_index), 0); e2 = res.coeff_of((0, r_index), 5)
CoeffOf ==
    /\ epc = "folded"
    /\ coeffs' = [r_index |-> r_index(Meta),
                  e1 |-> coeff_of(res, r_index(Meta), 0),
                  e2 |-> coeff_of(res, r_index(Meta), 5)]
    /\ epc' = "coeffs"
    /\ UNCHANGED <<T, cs, adv_cols, fix_cols, cfg, gexpr, multipoly, res, z>>
    /\ UNCHANGED gvars

\* number of flat variables after the fold: shared fixed, two copies, challenge
NumVars == r_index(Meta) + 1

\* the base assignment, and the values an edit sets a variable to
BaseValue(v) == ((5 * v + 2) % (P - 1)) + 1
EditVals == {0, 1}

RECURSIVE EditSets(_)
EditSets(n) ==
    IF n = 0 THEN {{}}
    ELSE LET prev == EditSets(n - 1)
         IN prev \cup {S \cup {v} : S \in prev, v \in 0..(NumVars - 1)}

Assignments ==
    {[v \in 0..(NumVars - 1) |-> IF v \in DOMAIN e THEN e[v] ELSE BaseValue(v)] :
        e \in UNION {[S -> EditVals] : S \in EditSets(MaxEdits)}}

\* the polynomials are evaluated under one assignment of their variables
Evaluate ==
    /\ epc = "coeffs"
    /\ \E zz \in Assignments : z' = zz
    /\ epc' = "evaluated"
    /\ UNCHANGED <<T, cs, adv_cols, fix_cols, cfg, gexpr, multipoly, res, coeffs>>
    /\ UNCHANGED gvars

\* a monomial from its <<index, exponent>> pairs
MonoOf(pairs) == [v \in {pr[1] : pr \in pairs} |->
                    (CHOOSE pr \in pairs : pr[1] = v)[2]]

\* the expected rendering of gates[0][0] in test_aux_gate_expr, as a tree
GoldenExpr ==
    LET Z(k) == Var(k)
        Pow5(x) == Product(Product(Product(x, x), Product(x, x)), x)
    IN Sum(Sum(Sum(Sum(Sum(Product(Product(Z(4), Z(8)), Z(9)),
                           Product(Z(5), Z(10))),
                       Z(7)),
                   Product(Z(6), Z(11))),
               Sum(Product(Z(0), Z(8)), Product(Z(2), Pow5(Z(8))))),
           Sum(Product(Z(1), Z(9)), Product(Z(3), Pow5(Z(9)))))

\* the expected rendering of e1 in test_aux_gate_cross_term
E1Golden ==
    {Term1(MonoOf({<<2, 1>>, <<8, 5>>})),
     Term1(MonoOf({<<3, 1>>, <<9, 5>>})),
     Term1(MonoOf({<<4, 1>>, <<8, 1>>, <<9, 1>>, <<12, 3>>})),
     Term1(MonoOf({<<0, 1>>, <<8, 1>>, <<12, 4>>})),
     Term1(MonoOf({<<1, 1>>, <<9, 1>>, <<12, 4>>})),
     Term1(MonoOf({<<5, 1>>, <<10, 1>>, <<12, 4>>})),
     Term1(MonoOf({<<6, 1>>, <<11, 1>>, <<12, 4>>})),
     Term1(MonoOf({<<7, 1>>, <<12, 5>>}))}

\* the expected rendering of e2 in test_aux_gate_cross_term
E2Golden ==
    {Term1(MonoOf({<<2, 1>>, <<13, 5>>})),
     Term1(MonoOf({<<3, 1>>, <<14, 5>>})),
     Term1(MonoOf({<<4, 1>>, <<13, 1>>, <<14, 1>>, <<17, 3>>})),
     Term1(MonoOf({<<0, 1>>, <<13, 1>>, <<17, 4>>})),
     Term1(MonoOf({<<1, 1>>, <<14, 1>>, <<17, 4>>})),
     Term1(MonoOf({<<5, 1>>, <<15, 1>>, <<17, 4>>})),
     Term1(MonoOf({<<6, 1>>, <<16, 1>>, <<17, 4>>})),
     Term1(MonoOf({<<7, 1>>, <<17, 5>>}))}

InitGate ==
    /\ InitRegion(0)
    /\ \E w \in 0..MaxT, ni \in 0..MaxInst : InitCs(w, ni)

NextGate ==
    \/ \E spare \in 0..MaxSpare : AllocColumns(spare)
    \/ Configure
    \/ Translate
    \/ Expand
    \/ FoldTransform
    \/ CoeffOf
    \/ Evaluate

SpecGate == InitGate /\ [][NextGate]_vars

\* ------------------------------------------------ properties of the gadget
\* sum over k in 0..Len(ts)-1 of rv^k * ts[k]
RECURSIVE PowerSum(_, _, _)
PowerSum(ts, rv, n) ==
    IF n = 0 THEN 0
    ELSE FAdd(PowerSum(ts, rv, n - 1), FMul(FPow(rv, n - 1), ts[n]))

RLC(ts, rv) == PowerSum(ts, rv, Len(ts))

\* the last n terms
Suffix(n) == SubSeq(terms, d - n + 1, d)

\* number of loop iterations completed
StepsDone == i - 1

\* rows the running invocation made a successful assignment in
RowsWritten ==
    {log[k].row : k \in {j \in 1..Len(log) : log[j].ok /\ log[j].kind # "equal"}}

AdviceAt(column, row) == CellValue(advice, <<column, row>>)
FixedAt(column, row) == CellValue(fixed, <<column, row>>)

\* the gate polynomial of the chip on one row of the region
GateRow(row) ==
    Eval(GatePoly(config, TestT),
         [c \in 0..(TestT + 1) |-> AdviceAt(c, row)],
         [c \in 0..(2 * TestT + 3) |-> FixedAt(c, row)])

\* C1: with every backend call succeeding, after k iterations the accumulator
\* is the power sum of the last k+1 terms (the first iteration yields
\* terms[d-2] + r*terms[d-1]), and the returned cell holds and carries
\* the sum over i of r^i * terms[i].
C1_Horner ==
    /\ (pc \in {"loop", "done"} /\ StepsDone >= 1) =>
          /\ out.tag = "cell"
          /\ out.value = RLC(Suffix(StepsDone + 1), r)
          /\ StepsDone = 1 => out.value = FAdd(Term(d - 2), FMul(r, Term(d - 1)))
    /\ pc = "done" =>
          /\ ret = out
          /\ ret.value = RLC(terms, r)
          /\ CellValue(advice, ret.cell) = ret.value

C1_Witness ==
    /\ pc = "done"
    /\ terms = <<3, 5, 7>>
    /\ r = 2
    /\ ret.value = 41

\* C2: every row the gadget laid out satisfies the fused gate, on the values
\* the row finally holds.
C2_RowsSatisfyGate ==
    pc = "done" => \A row \in entry..(offset - 1) : GateRow(row) = 0

\* C3: after each iteration the row holds r in state column 0, the previous
\* accumulator in state column 1, the consumed term in the input column and the
\* new accumulator in the output column, and the kept cell is an output cell.
C3_RowLayout ==
    (pc \in {"loop", "done"} /\ StepsDone >= 1) =>
        LET row == offset - 1
            prev == RLC(Suffix(StepsDone), r)
        IN /\ AdviceAt(config.state[0], row) = r
           /\ AdviceAt(config.state[1], row) = prev
           /\ AdviceAt(config.input, row) = Term(d - 1 - StepsDone)
           /\ AdviceAt(config.out, row) = out.value
           /\ out.cell = <<config.out, row>>

\* C4: one equality constraint per iteration after the first, between the
\* row's state-column-1 cell and the cell kept as the previous iteration's
\* result, none on the first; on return both cells of every constraint hold
\* equal values.
C4_Copies ==
    /\ pc \in {"loop", "done"} =>
          /\ Len(copies) = (IF StepsDone >= 1 THEN StepsDone - 1 ELSE 0)
          /\ \A k \in 1..Len(copies) :
                copies[k] = << <<config.state[1], entry + k>>,
                               <<OutColumn(config), entry + k - 1>> >>
    /\ pc = "done" =>
          \A k \in 1..Len(copies) :
              CellValue(advice, copies[k][1]) = CellValue(advice, copies[k][2])

\* C5: the cursor advances by exactly one per iteration, every call of an
\* iteration is made at that iteration's cursor row, on return the cursor is
\* the entry value plus d-1, the first row not written, and invocations run
\* one after the other write disjoint rows.
C5_Cursor ==
    /\ pc \in {"loop", "done", "err"} => offset = entry + StepsDone
    /\ \A k \in 1..Len(log) : log[k].row = entry + log[k].step - 1
    /\ pc = "done" =>
          /\ offset = entry + d - 1
          /\ RowsWritten = entry..(offset - 1)
    /\ \A row \in RowsWritten : row >= entry
    /\ \A row \in prevRows : row < entry
    /\ prevRows \cap RowsWritten = {}

C5_Witness ==
    /\ pc = "done"
    /\ invocations = 2
    /\ d = 3
    /\ Cardinality(prevRows) = 2
    /\ Cardinality(RowsWritten) = 2

\* C6: a failing backend call is the last call the invocation makes; the
\* cursor stays at that call's row and the invocation returns the error, no
\* cell.
C6_ErrorStops ==
    /\ \A k \in 1..Len(log) : ~log[k].ok => (k = Len(log) /\ pc = "err")
    /\ pc = "err" =>
          /\ Len(log) > 0
          /\ ~log[Len(log)].ok
          /\ offset = log[Len(log)].row
          /\ ret = Err
    /\ ret.tag = "cell" => \A k \in 1..Len(log) : log[k].ok

C6_Witness ==
    /\ pc = "err"
    /\ StepsDone = 1
    /\ Len(log) > 12
    /\ Len(copies) = 1

\* C10: with fewer than two terms the gadget makes no backend call, leaves the
\* cursor where it was and returns neither a cell nor an error: it panics.
C10_TooFewTerms ==
    /\ (pc # "idle" /\ d < 2) =>
          /\ log = <<>>
          /\ advice = <<>> /\ fixed = <<>> /\ copies = <<>>
          /\ offset = entry
          /\ ret = None
          /\ pc \in {"loop", "panic"}
    /\ pc = "panic" => d < 2

C10_Witness ==
    /\ pc = "panic"
    /\ terms = <<5>>

\* ------------------------------------------------- properties of the gate
\* the test's setting: T = 2 on a fresh constraint system, no spare columns
TestSetting == T = TestT /\ cs.num_instance = 0 /\ cs.num_fixed = 2 * TestT + 4

VarsOf(p) == UNION {DOMAIN t.m : t \in p}

\* first flat index of the advice columns
AdviceBase == cs.num_fixed + cs.num_instance

\* the documented gate, q_m*s[0]*s[1] + sum_k q_1[k]*s[k] + sum_k q_5[k]*s[k]^5
\* + rc + q_i*input + q_o*out, under the assignment zz, with the fixed columns
\* at q_1[0..T), q_5[0..T), q_m, q_i, q_o, rc and the advice columns s[0..T),
\* input, out starting at index a0; every term of witness degree g is scaled by
\* u^(5-g) (u = 1: the gate itself)
RECURSIVE StateTerms(_, _, _, _)
StateTerms(zz, a0, u, n) ==
    IF n = 0 THEN 0
    ELSE FAdd(StateTerms(zz, a0, u, n - 1),
              FAdd(FMul(FMul(zz[n - 1], zz[a0 + n - 1]), FPow(u, 4)),
                   FMul(zz[T + n - 1], FPow(zz[a0 + n - 1], 5))))

DocGate(zz, a0, u) ==
    FAdd(FAdd(FAdd(FAdd(FMul(FMul(FMul(zz[2 * T], zz[a0]), zz[a0 + 1]), FPow(u, 3)),
                        StateTerms(zz, a0, u, T)),
                   FMul(zz[2 * T + 3], FPow(u, 5))),
              FMul(FMul(zz[2 * T + 1], zz[a0 + T]), FPow(u, 4))),
         FMul(FMul(zz[2 * T + 2], zz[a0 + T + 1]), FPow(u, 4)))

\* the same polynomial in sum-of-monomials form, its advice block at a0,
\* scaled by powers of the variable u when hom is set
DocTerms(a0, hom, u) ==
    LET Scale(m, g) == IF hom /\ g < 5 THEN m (+) MonoOf({<<u, 5 - g>>}) ELSE m
    IN {Term1(Scale(MonoOf({<<2 * T, 1>>, <<a0, 1>>, <<a0 + 1, 1>>}), 2)),
        Term1(Scale(MonoOf({<<2 * T + 3, 1>>}), 0)),
        Term1(Scale(MonoOf({<<2 * T + 1, 1>>, <<a0 + T, 1>>}), 1)),
        Term1(Scale(MonoOf({<<2 * T + 2, 1>>, <<a0 + T + 1, 1>>}), 1))}
       \cup {Term1(Scale(MonoOf({<<k, 1>>, <<a0 + k, 1>>}), 1)) : k \in 0..(T - 1)}
       \cup {Term1(Scale(MonoOf({<<T + k, 1>>, <<a0 + k, 5>>}), 5)) : k \in 0..(T - 1)}

Configured == epc \notin {"new", "columns", "panic"}

\* C8: configure takes exactly T+2 advice and 2T+4 fixed columns and registers
\* one gate with one polynomial, which under the flat index order (fixed
\* q_1, q_5, q_m, q_i, q_o, rc, then advice s, input, out) equals the
\* documented gate for every assignment, each column at its own index.
C8_Configure ==
    /\ Configured =>
          /\ T >= 2
          /\ cs.num_advice - Len(adv_cols) = T + 2
          /\ cs.num_fixed - Len(fix_cols) = 2 * T + 4
          /\ Len(cs.gates) = 1
          /\ Len(cs.gates[1]) = 1
    /\ (epc \in {"expr", "expanded"} /\ TestSetting) => gexpr = GoldenExpr
    /\ epc \in {"expanded", "folded", "coeffs", "evaluated"} =>
          /\ multipoly = DocTerms(AdviceBase, FALSE, 0)
          /\ Cardinality(VarsOf(multipoly)) = 3 * T + 6
    /\ epc = "evaluated" =>
          /\ EvalExpr(gexpr, z) = DocGate(z, AdviceBase, 1)
          /\ EvalPoly(multipoly, z) = DocGate(z, AdviceBase, 1)

C8_Witness ==
    /\ epc = "evaluated"
    /\ T = 3
    /\ Len(adv_cols) = 1
    /\ z[T] = 0

\* C7 as stated: the coefficient at challenge power 0 is the gate on copy 1,
\* the coefficient at power 5 the gate on copy 2, for every assignment.
C7_BaseGateOnCopies ==
    (epc = "evaluated" /\ T = TestT) =>
        /\ EvalPoly(coeffs.e1, z) = DocGate(z, AdviceBase, 1)
        /\ EvalPoly(coeffs.e2, z) = DocGate(z, AdviceBase + CopyWidth(Meta), 1)

\* C7, amended: the coefficient at challenge power 0 is the gate homogenised to
\* degree 5 by copy 1's extra variable, on copy 1; the coefficient at power 5
\* is the same on copy 2 with copy 2's extra variable; where the extra
\* variable is 1 they are the gate itself.
C7_HomogenisedGateOnCopies ==
    /\ epc \in {"coeffs", "evaluated"} =>
          /\ coeffs.e1 = DocTerms(AdviceBase, TRUE, U1(Meta))
          /\ coeffs.e2 = DocTerms(AdviceBase + CopyWidth(Meta), TRUE, U2(Meta))
          /\ TestSetting => (coeffs.e1 = E1Golden /\ coeffs.e2 = E2Golden)
    /\ epc = "evaluated" =>
          /\ EvalPoly(coeffs.e1, z) = DocGate(z, AdviceBase, z[U1(Meta)])
          /\ EvalPoly(coeffs.e2, z) =
                DocGate(z, AdviceBase + CopyWidth(Meta), z[U2(Meta)])
          /\ z[U1(Meta)] = 1 =>
                EvalPoly(coeffs.e1, z) = DocGate(z, AdviceBase, 1)
          /\ z[U2(Meta)] = 1 =>
                EvalPoly(coeffs.e2, z) =
                    DocGate(z, AdviceBase + CopyWidth(Meta), 1)

C7_Witness ==
    /\ epc = "evaluated"
    /\ TestSetting
    /\ z[U1(Meta)] = 1
    /\ coeffs.e1 = E1Golden

\* C9: the challenge index is F + 2*(I+A+1); the fixed indices are shared,
\* copy 1 is [F, F+I+A], copy 2 is [F+I+A+1, F+2(I+A)+1], each the I+A
\* non-fixed variables and one extra slot; the copies are disjoint and lie
\* below the challenge, which comes right after them.
C9_Layout ==
    epc \in {"folded", "coeffs", "evaluated"} =>
        LET F == cs.num_fixed
            I == cs.num_instance
            A == cs.num_advice
            ch == r_index(Meta)
            Shared == 0..(F - 1)
            CopyOne == F..(F + I + A)
            CopyTwo == (F + I + A + 1)..(F + 2 * (I + A) + 1)
        IN /\ ch = F + 2 * (I + A + 1)
           /\ VarsOf(res) \subseteq Shared \cup CopyOne \cup CopyTwo \cup {ch}
           /\ ch \in VarsOf(res)
           /\ CopyOne \cap CopyTwo = {}
           /\ Cardinality(CopyOne) = I + A + 1
           /\ Cardinality(CopyTwo) = I + A + 1
           /\ \A v \in Shared \cup CopyOne \cup CopyTwo : v < ch
           /\ (F + 2 * (I + A) + 1) + 1 = ch
           /\ epc \in {"coeffs", "evaluated"} =>
                 /\ coeffs.r_index = ch
                 /\ VarsOf(coeffs.e1) \subseteq Shared \cup CopyOne
                 /\ VarsOf(coeffs.e2) \subseteq Shared \cup CopyTwo
                 /\ VarsOf(coeffs.e1) \cap Shared = VarsOf(coeffs.e2) \cap Shared
                 /\ {v + (I + A + 1) : v \in VarsOf(coeffs.e1) \cap CopyOne}
                       = VarsOf(coeffs.e2) \cap CopyTwo
                 /\ (F + I + A) \in VarsOf(coeffs.e1)
                 /\ (F + 2 * (I + A) + 1) \in VarsOf(coeffs.e2)

C9_Witness ==
    /\ epc = "coeffs"
    /\ cs.num_instance = 1
    /\ T = 2
    /\ coeffs.r_index = cs.num_fixed + 2 * (1 + cs.num_advice + 1)

====
